---- MODULE Spec2Model ----
(***************************************************************************)
(* Two tutorial notebooks run in a Jupyter kernel:                         *)
(*   - "Autoencoder for Text in TensorFlow.ipynb" (a feed-forward          *)
(*     autoencoder over one-hot word vectors of a toy corpus);             *)
(*   - "CIFAR_10-Keras.ipynb" (two Keras CNNs trained on CIFAR-10).        *)
(* A notebook is a list of code cells.  The kernel holds a namespace of    *)
(* bound names and their values; running a cell either binds names or      *)
(* raises.  Floating point numerics (weights, losses, accuracies) are not  *)
(* represented: tensors and arrays are represented by their shapes.        *)
(***************************************************************************)
EXTENDS Integers, Sequences, FiniteSets, TLC

VARIABLES
    nb,         \* which program runs: "autoencoder", "cifar" or "build_vocab"
    mode,       \* "RunAll" (stop at the first exception) or "Interactive"
    cursor,     \* index of the next code cell in document order
    halted,     \* Run All was aborted by an exception
    failed,     \* cells whose last execution raised
    error,      \* the exception raised by the last execution, or "none"
    ns,         \* the names bound in the kernel
    py,         \* the values of the bound names
    stdout,     \* number of lines printed so far
    disk,       \* files in persistent storage
    downloads,  \* number of dataset downloads performed
    hashOrder   \* iteration order of the Counter dictionary (CPython 3.5)

vars == <<nb, mode, cursor, halted, failed, error, ns, py, stdout, disk,
          downloads, hashOrder>>

----------------------------------------------------------------------------
(* Bounds of the build_vocab harness *)

MaxLen == 3
MaxVocabSize == 3

Alphabet == {"UNK", "a", "b"}

----------------------------------------------------------------------------
(* Python helpers *)

None == "None"

Range(s) == {s[i] : i \in DOMAIN s}

Min(a, b) == IF a < b THEN a ELSE b

Max(a, b) == IF a < b THEN b ELSE a

SeqsUpTo(S, n) == UNION {[1..k -> S] : k \in 0..n}

\* the sequences that enumerate every element of S exactly once
Perms(S) == {s \in [1..Cardinality(S) -> S] : Range(s) = S}

\* collections.Counter(words): number of occurrences of each distinct word
Counter(words) ==
    [w \in Range(words) |-> Cardinality({i \in DOMAIN words : words[i] = w})]

\* sorted(items, key=itemgetter(1), reverse=True): a stable sort of the
\* dictionary's iteration order by non-increasing count
SortedByCount(cnt, order) ==
    LET pos(w) == CHOOSE i \in DOMAIN order : order[i] = w
        rank(w) == Cardinality({v \in DOMAIN cnt : cnt[v] > cnt[w]})
                   + Cardinality({v \in DOMAIN cnt :
                                     cnt[v] = cnt[w] /\ pos(v) < pos(w)})
                   + 1
    IN  [r \in 1..Cardinality(DOMAIN cnt) |->
            CHOOSE w \in DOMAIN cnt : rank(w) = r]

\* Counter.most_common(n): the n first items of the sorted list (none when
\* n <= 0)
most_common(cnt, order, n) ==
    LET s == SortedByCount(cnt, order)
    IN  SubSeq(s, 1, Min(Max(n, 0), Len(s)))

\* for word, _ in count: dictionary[word] = index; index += 1
\* (a later assignment to the same key overwrites the earlier one)
DictOfCount(count) ==
    [w \in Range(count) |->
        (CHOOSE i \in DOMAIN count :
            /\ count[i] = w
            /\ \A j \in DOMAIN count : count[j] = w => j <= i) - 1]

\* dict(zip(dictionary.values(), dictionary.keys()))
ZipValuesKeys(d) ==
    [i \in {d[w] : w \in DOMAIN d} |-> CHOOSE w \in DOMAIN d : d[w] = i]

build_vocab(words, vocab_size, order) ==
    LET count == <<"UNK">> \o most_common(Counter(words), order, vocab_size - 1)
        dictionary == DictOfCount(count)
    IN  [dictionary |-> dictionary,
         index_dictionary |-> ZipValuesKeys(dictionary)]

\* [vocabulary[token] if token in vocabulary else 0 for token in corpus]
index_words_in_corpus(vocabulary, corpus) ==
    [i \in DOMAIN corpus |->
        IF corpus[i] \in DOMAIN vocabulary THEN vocabulary[corpus[i]] ELSE 0]

one_hot_encode_shifted(index, vocabulary_size) ==
    [j \in 1..vocabulary_size |-> IF j = index THEN 1 ELSE 0]

\* row = np.zeros(vocabulary_size); row[index] = 1   (row[j+1] is entry j)
one_hot_encode(index, vocabulary_size) ==
    [j \in 1..vocabulary_size |-> IF j = index + 1 THEN 1 ELSE 0]

\* row[index] = 1 raises IndexError when index is out of bounds
one_hot_raises(index, vocabulary_size) ==
    ~(index < vocabulary_size /\ index >= -vocabulary_size)

----------------------------------------------------------------------------
(* The build_vocab harness: one call on bounded inputs *)

InitVocab ==
    /\ nb = "build_vocab"
    /\ mode = "RunAll"
    /\ cursor = 1
    /\ halted = FALSE
    /\ failed = {}
    /\ error = "none"
    /\ ns = {"words", "vocab_size"}
    /\ \E words \in SeqsUpTo(Alphabet, MaxLen), vocab_size \in 1..MaxVocabSize :
          py = [words |-> words, vocab_size |-> vocab_size,
                dictionary |-> None, index_dictionary |-> None,
                corpus |-> None, vocabulary_size |-> None, data |-> None]
    /\ hashOrder \in Perms(Range(py.words))
    /\ stdout = 0
    /\ disk = {}
    /\ downloads = 0

build_vocab_call ==
    /\ nb = "build_vocab"
    /\ cursor = 1
    /\ LET r == build_vocab(py.words, py.vocab_size, hashOrder)
       IN  py' = [py EXCEPT !.dictionary = r.dictionary,
                            !.index_dictionary = r.index_dictionary]
    /\ ns' = ns \cup {"dictionary", "index_dictionary"}
    /\ cursor' = 2
    /\ UNCHANGED <<nb, mode, halted, failed, error, stdout, disk, downloads,
                   hashOrder>>

\* the words indexed and encoded as the notebook does with its corpus:
\* corpus = index_words_in_corpus(corpus); vocabulary_size = len(vocabulary);
\* data = np.array([one_hot_encode(i) for i in corpus])
encode_call ==
    /\ nb = "build_vocab"
    /\ cursor = 2
    /\ LET corpus == index_words_in_corpus(py.dictionary, py.words)
           vocabulary_size == Cardinality(DOMAIN py.dictionary)
       IN  IF \E i \in Range(corpus) : one_hot_raises(i, vocabulary_size)
              THEN /\ error' = "IndexError"
                   /\ py' = [py EXCEPT !.corpus = corpus,
                                        !.vocabulary_size = vocabulary_size]
                   /\ ns' = ns \cup {"corpus", "vocabulary_size"}
              ELSE /\ error' = "none"
                   /\ py' = [py EXCEPT
                         !.corpus = corpus,
                         !.vocabulary_size = vocabulary_size,
                         !.data = [r \in DOMAIN corpus |->
                                     one_hot_encode(corpus[r], vocabulary_size)]]
                   /\ ns' = ns \cup {"corpus", "vocabulary_size", "data"}
    /\ cursor' = 3
    /\ UNCHANGED <<nb, mode, halted, failed, stdout, disk, downloads,
                   hashOrder>>

NextVocab == build_vocab_call \/ encode_call

SpecVocab == InitVocab /\ [][NextVocab]_vars

----------------------------------------------------------------------------
(* The Jupyter kernel: cells run in document order.  "Run All" stops at the *)
(* first exception; run cell by cell, the notebook goes on to the next     *)
(* cell after an exception and a cell that raised can be executed again.   *)

Modes == {"RunAll", "Interactive"}

Scheduled(k) ==
    /\ ~halted
    /\ \/ cursor = k
       \/ mode = "Interactive" /\ k \in failed /\ cursor > k

Returns(k, binds) ==
    /\ ns' = ns \cup binds
    /\ error' = "none"
    /\ failed' = failed \ {k}
    /\ cursor' = IF cursor = k THEN k + 1 ELSE cursor
    /\ UNCHANGED <<nb, mode, halted, hashOrder>>

Raises(k, e) ==
    /\ error' = e
    /\ failed' = failed \cup {k}
    /\ halted' = (mode = "RunAll")
    /\ cursor' = IF mode # "RunAll" /\ cursor = k THEN k + 1 ELSE cursor
    /\ UNCHANGED <<nb, mode, hashOrder, ns, py, stdout, disk, downloads>>

\* a cell that reads a name not bound in the kernel raises NameError;
\* exc is the exception its statements raise otherwise, or "none"
CellExc(k, reads, binds, exc, Eff) ==
    /\ Scheduled(k)
    /\ IF ~(reads \subseteq ns) THEN Raises(k, "NameError")
       ELSE IF exc # "none" THEN Raises(k, exc)
       ELSE Eff /\ Returns(k, binds)

Cell(k, reads, binds, Eff) == CellExc(k, reads, binds, "none", Eff)

Quiet == UNCHANGED <<stdout, disk, downloads>>

----------------------------------------------------------------------------
(* Autoencoder for Text in TensorFlow.ipynb *)

AE == "autoencoder"

\* "the quick brown fox jumped over the lazy dog from the quick tall fox".split()
CorpusText ==
    <<"the", "quick", "brown", "fox", "jumped", "over", "the", "lazy", "dog",
      "from", "the", "quick", "tall", "fox">>

\* iteration orders of Counter(corpus) considered: first-occurrence order,
\* its reverse, and an order that yields the recorded vocabulary
DictOrders ==
    { <<"the", "quick", "brown", "fox", "jumped", "over", "lazy", "dog",
        "from", "tall">>,
      <<"tall", "from", "dog", "lazy", "over", "jumped", "fox", "brown",
        "quick", "the">>,
      <<"the", "quick", "fox", "tall", "over", "lazy", "dog", "jumped",
        "brown", "from">> }

AENames ==
    {"corpus", "test_corpus", "vocabulary", "reverse_vocabulary",
     "vocabulary_size", "data", "test_data", "X", "Y", "graph", "loss",
     "optimizer", "init", "LEARNING_RATE", "NUM_TRAIN_STEPS", "SKIP_STEP",
     "test_data_compressed", "sent"}

InitAE ==
    /\ nb = AE
    /\ mode \in Modes
    /\ cursor = 1
    /\ halted = FALSE
    /\ failed = {}
    /\ error = "none"
    /\ ns = {}
    /\ py = [x \in AENames |-> None]
    /\ stdout = 0
    /\ disk = {}
    /\ downloads = 0
    /\ hashOrder \in DictOrders

AE_imports ==
    /\ nb = AE
    /\ Cell(1, {}, {"os", "randint", "Counter", "np", "tf"},
         UNCHANGED py /\ Quiet)

AE_corpus ==
    /\ nb = AE
    /\ Cell(2, {}, {"corpus", "test_corpus"},
         /\ py' = [py EXCEPT !.corpus = CorpusText, !.test_corpus = CorpusText]
         /\ Quiet)

AE_def_build_vocab ==
    /\ nb = AE
    /\ Cell(3, {}, {"build_vocab"}, UNCHANGED py /\ Quiet)

\* the argument vocab_size of the call
VocabSizeArg == 100

AE_build_vocab ==
    /\ nb = AE
    /\ Cell(4, {"build_vocab", "corpus", "Counter"},
         {"vocabulary", "reverse_vocabulary"},
         /\ LET r == build_vocab(py.corpus, VocabSizeArg, hashOrder)
            IN  py' = [py EXCEPT !.vocabulary = r.dictionary,
                                 !.reverse_vocabulary = r.index_dictionary]
         /\ Quiet)

AE_show_vocabulary ==
    /\ nb = AE
    /\ Cell(5, {"vocabulary"}, {}, UNCHANGED py /\ Quiet)

AE_def_index_words ==
    /\ nb = AE
    /\ Cell(6, {}, {"index_words_in_corpus"}, UNCHANGED py /\ Quiet)

AE_index_corpus ==
    /\ nb = AE
    /\ Cell(7, {"index_words_in_corpus", "corpus", "test_corpus", "vocabulary"},
         {"corpus", "test_corpus"},
         /\ py' = [py EXCEPT
                     !.corpus = index_words_in_corpus(py.vocabulary, py.corpus),
                     !.test_corpus =
                         index_words_in_corpus(py.vocabulary, py.test_corpus)]
         /\ Quiet)

AE_show_test_corpus ==
    /\ nb = AE
    /\ Cell(8, {"test_corpus"}, {}, UNCHANGED py /\ Quiet)

AE_vocabulary_size ==
    /\ nb = AE
    /\ Cell(9, {"vocabulary"}, {"vocabulary_size"},
         /\ py' = [py EXCEPT
                     !.vocabulary_size = Cardinality(DOMAIN py.vocabulary)]
         /\ Quiet)

AE_def_one_hot_encode ==
    /\ nb = AE
    /\ Cell(10, {}, {"one_hot_encode"}, UNCHANGED py /\ Quiet)

AE_data ==
    /\ nb = AE
    /\ CellExc(11,
        {"np", "one_hot_encode", "corpus", "test_corpus", "vocabulary_size"},
        {"data", "test_data"},
        IF \E i \in Range(py.corpus) \cup Range(py.test_corpus) :
               one_hot_raises(i, py.vocabulary_size)
           THEN "IndexError" ELSE "none",
        /\ py' = [py EXCEPT
              !.data = [r \in DOMAIN py.corpus |->
                           one_hot_encode(py.corpus[r], py.vocabulary_size)],
              !.test_data = [r \in DOMAIN py.test_corpus |->
                           one_hot_encode(py.test_corpus[r], py.vocabulary_size)]]
        /\ Quiet)

AE_print_shapes ==
    /\ nb = AE
    /\ Cell(12, {"data", "test_data"}, {},
         /\ stdout' = stdout + 2
         /\ UNCHANGED <<py, disk, downloads>>)

\* data[randint(1, data.shape[0])]: randint includes both ends, and the
\* row index data.shape[0] is out of bounds
AE_show_random_row ==
    /\ nb = AE
    /\ \E r \in (IF "data" \in ns THEN 1..Len(py.data) ELSE {0}) :
          CellExc(13, {"data", "randint"}, {},
                  IF r < Len(py.data) THEN "none" ELSE "IndexError",
                  UNCHANGED py /\ Quiet)

AE_placeholders ==
    /\ nb = AE
    /\ Cell(14, {"tf", "vocabulary_size"}, {"X", "Y"},
         /\ py' = [py EXCEPT !.X = [shape |-> <<None, py.vocabulary_size>>],
                             !.Y = [shape |-> <<None, py.vocabulary_size>>]]
         /\ Quiet)

\* one stage  act(tf.add(tf.matmul(input, w), b))
Stage(name, input, rows, cols, act) ==
    [name |-> name, input |-> input, w |-> <<rows, cols>>, b |-> <<1, cols>>,
     act |-> act]

AEGraphWithoutCode(vocabulary_size) ==
    << Stage("layer1", "X", vocabulary_size, 1000, "relu"),
       Stage("layer2", "layer1", 1000, 250, "relu"),
       Stage("layer3", "layer2", 250, 250, "relu"),
       Stage("layer4", "layer3", 250, 1000, "relu"),
       Stage("decoder", "layer4", 1000, vocabulary_size, "sigmoid") >>

AEGraph(vocabulary_size) ==
    << Stage("layer1", "X", vocabulary_size, 1000, "relu"),
       Stage("layer2", "layer1", 1000, 250, "relu"),
       Stage("code", "layer2", 250, 50, "relu"),
       Stage("layer3", "code", 50, 250, "relu"),
       Stage("layer4", "layer3", 250, 1000, "relu"),
       Stage("decoder", "layer4", 1000, vocabulary_size, "sigmoid") >>

StageNamed(g, name) == g[CHOOSE i \in DOMAIN g : g[i].name = name]

\* number of columns of a tensor of the graph
Width(g, X, name) ==
    IF name = "X" THEN X.shape[2] ELSE StageNamed(g, name).w[2]

\* tf.matmul(a, w) needs as many columns in a as rows in w
MatmulMismatch(g, X) ==
    \E i \in DOMAIN g : Width(g, X, g[i].input) # g[i].w[1]

\* number of matmul-plus-bias stages on the path from X to a tensor
RECURSIVE StagesFromX(_, _)
StagesFromX(g, name) ==
    IF name = "X" THEN 0 ELSE 1 + StagesFromX(g, StageNamed(g, name).input)

GraphNames ==
    {"w1", "b1", "layer1", "w2", "b2", "layer2", "w", "b", "code", "w3", "b3",
     "layer3", "w4", "b4", "layer4", "w5", "b5", "decoder"}

AE_graph ==
    /\ nb = AE
    /\ CellExc(15, {"tf", "vocabulary_size", "X"}, GraphNames,
        IF MatmulMismatch(AEGraph(py.vocabulary_size), py.X)
           THEN "ValueError" ELSE "none",
        /\ py' = [py EXCEPT !.graph = AEGraph(py.vocabulary_size)]
        /\ Quiet)

AE_loss ==
    /\ nb = AE
    /\ Cell(16, {"tf", "X", "decoder"}, {"loss"},
         /\ py' = [py EXCEPT !.loss = [op |-> "reduce_mean_pow2",
                                      of |-> <<"X", "decoder">>]]
         /\ Quiet)

AE_optimizer ==
    /\ nb = AE
    /\ Cell(17, {"tf", "LEARNING_RATE", "loss"}, {"optimizer", "init"},
         /\ py' = [py EXCEPT
                     !.optimizer = [kind |-> "RMSProp",
                                    learning_rate |-> py.LEARNING_RATE,
                                    minimize |-> "loss"],
                     !.init = "global_variables_initializer"]
         /\ Quiet)

AE_hyperparameters ==
    /\ nb = AE
    /\ Cell(18, {}, {"LEARNING_RATE", "NUM_TRAIN_STEPS", "SKIP_STEP"},
         /\ py' = [py EXCEPT !.LEARNING_RATE = 10,  \* 0.01, in thousandths
                             !.NUM_TRAIN_STEPS = 1000,
                             !.SKIP_STEP = 10]
         /\ Quiet)

\* files written by the training cell: np.save is commented out
TrainingWritesWithSave == {"outfile.npy"}

TrainingWrites == {}

\* with tf.Session() as sess: ... the whole training loop and the final
\* sess.run(decoder, feed_dict={X: test_data})
AE_train ==
    /\ nb = AE
    /\ CellExc(19,
        {"tf", "init", "NUM_TRAIN_STEPS", "optimizer", "loss", "X", "data",
         "SKIP_STEP", "decoder", "test_data"},
        {"sess", "i", "_", "loss_val", "test_data_compressed"},
        IF \E r \in DOMAIN py.data : Len(py.data[r]) # py.X.shape[2]
           THEN "ValueError" ELSE "none",
        /\ py' = [py EXCEPT !.test_data_compressed =
                     [shape |-> <<Len(py.test_data),
                                  Width(py.graph, py.X, "decoder")>>,
                      ones |-> FALSE]]
        /\ stdout' = stdout + Cardinality({i \in 0..(py.NUM_TRAIN_STEPS - 1) :
                                             i % py.SKIP_STEP = 0})
        /\ disk' = disk \cup TrainingWrites
        /\ UNCHANGED downloads)

AE_show_shape ==
    /\ nb = AE
    /\ Cell(20, {"test_data_compressed"}, {}, UNCHANGED py /\ Quiet)

AE_show_compressed ==
    /\ nb = AE
    /\ Cell(21, {"test_data_compressed"}, {}, UNCHANGED py /\ Quiet)

\* test_data_compressed[test_data_compressed>0] = 1: sigmoid outputs are
\* positive, so every entry becomes 1
AE_threshold ==
    /\ nb = AE
    /\ Cell(22, {"test_data_compressed"}, {},
         /\ py' = [py EXCEPT !.test_data_compressed.ones = TRUE]
         /\ Quiet)

AE_show_thresholded ==
    /\ nb = AE
    /\ Cell(23, {"test_data_compressed"}, {}, UNCHANGED py /\ Quiet)

AE_show_test_data ==
    /\ nb = AE
    /\ Cell(24, {"test_data"}, {}, UNCHANGED py /\ Quiet)

\* sent = first row; print the words reverse_vocabulary[i] where sent[i] == 1.
AE_print_sentence ==
    /\ nb = AE
    /\ CellExc(25, {"np", "test_data_compressed", "reverse_vocabulary"},
        {"sent"},
        IF py.test_data_compressed.shape[1] = 0 THEN "IndexError"
        ELSE IF /\ py.test_data_compressed.ones
                /\ \E i \in 0..(py.test_data_compressed.shape[2] - 1) :
                      i \notin DOMAIN py.reverse_vocabulary
             THEN "KeyError" ELSE "none",
        /\ py' = [py EXCEPT !.sent =
                     [width |-> py.test_data_compressed.shape[2],
                      ones |-> py.test_data_compressed.ones]]
        /\ stdout' = stdout + 1
        /\ UNCHANGED <<disk, downloads>>)

NextAE ==
    \/ AE_imports
    \/ AE_corpus
    \/ AE_def_build_vocab
    \/ AE_build_vocab
    \/ AE_show_vocabulary
    \/ AE_def_index_words
    \/ AE_index_corpus
    \/ AE_show_test_corpus
    \/ AE_vocabulary_size
    \/ AE_def_one_hot_encode
    \/ AE_data
    \/ AE_print_shapes
    \/ AE_show_random_row
    \/ AE_placeholders
    \/ AE_graph
    \/ AE_loss
    \/ AE_optimizer
    \/ AE_hyperparameters
    \/ AE_train
    \/ AE_show_shape
    \/ AE_show_compressed
    \/ AE_threshold
    \/ AE_show_thresholded
    \/ AE_show_test_data
    \/ AE_print_sentence

----------------------------------------------------------------------------
(* CIFAR_10-Keras.ipynb *)

CIFAR == "cifar"

\* where cifar10.load_data() keeps the downloaded dataset
CifarCache == "~/.keras/datasets/cifar-10"

CifarNames ==
    {"X_train", "y_train", "X_test", "y_test", "image_dim_ordering", "seed",
     "np_random", "num_classes", "model", "epochs", "lrate", "decay", "sgd",
     "scores"}

InitCifar ==
    /\ nb = CIFAR
    /\ mode \in Modes
    /\ cursor = 1
    /\ halted = FALSE
    /\ failed = {}
    /\ error = "none"
    /\ ns = {}
    /\ py = [[x \in CifarNames |-> None] EXCEPT !.image_dim_ordering = "tf"]
    /\ stdout = 0
    /\ disk \in {{}, {CifarCache}}
    /\ downloads = 0
    /\ hashOrder = <<>>

\* files cifar10.load_data() leaves in persistent storage
load_data_files(d) == d \cup {CifarCache}

\* the dataset: 50,000 training and 10,000 test images in 10 classes
Images(n) == [samples |-> n, dtype |-> "uint8", max |-> 255]

Labels(n) == [samples |-> n, classes |-> 10, categorical |-> FALSE, width |-> 1]

\* (X_train, y_train), (X_test, y_test) = cifar10.load_data()
load_data ==
    /\ py' = [py EXCEPT !.X_train = Images(50000), !.y_train = Labels(50000),
                        !.X_test = Images(10000), !.y_test = Labels(10000)]
    /\ disk' = load_data_files(disk)
    /\ downloads' = IF CifarCache \in disk THEN downloads ELSE downloads + 1
    /\ UNCHANGED stdout

DataNames == {"X_train", "y_train", "X_test", "y_test"}

CIFAR_plot_load ==
    /\ nb = CIFAR
    /\ Cell(1, {}, {"cifar10", "pyplot"} \cup DataNames, load_data)

KerasNames ==
    {"numpy", "cifar10", "Sequential", "Dense", "Dropout", "Flatten",
     "maxnorm", "SGD", "Conv2D", "MaxPooling2D", "np_utils", "K"}

\* the imports and K.set_image_dim_ordering('th')
CIFAR_imports ==
    /\ nb = CIFAR
    /\ Cell(2, {}, KerasNames,
            /\ py' = [py EXCEPT !.image_dim_ordering = "th"]
            /\ Quiet)

\* seed = 7; numpy.random.seed(seed)
CIFAR_seed ==
    /\ nb = CIFAR
    /\ Cell(3, {"numpy"}, {"seed"},
            /\ py' = [py EXCEPT !.seed = 7, !.np_random = [seed |-> 7]]
            /\ Quiet)

CIFAR_load ==
    /\ nb = CIFAR
    /\ Cell(4, {"cifar10"}, DataNames, load_data)

\* X = X.astype('float32') / 255.0
Normalize(x) == [x EXCEPT !.dtype = "float32", !.max = x.max \div 255]

CIFAR_normalize ==
    /\ nb = CIFAR
    /\ Cell(5, {"X_train", "X_test"}, {"X_train", "X_test"},
            /\ py' = [py EXCEPT !.X_train = Normalize(py.X_train),
                                !.X_test = Normalize(py.X_test)]
            /\ Quiet)

\* np_utils.to_categorical(y): one column per class
to_categorical(y) == [y EXCEPT !.categorical = TRUE, !.width = y.classes]

\* y = to_categorical(y); num_classes = y_test.shape[1]
CIFAR_one_hot ==
    /\ nb = CIFAR
    /\ Cell(6, {"np_utils", "y_train", "y_test"},
            {"y_train", "y_test", "num_classes"},
            /\ py' = [py EXCEPT !.y_train = to_categorical(py.y_train),
                                !.y_test = to_categorical(py.y_test),
                                !.num_classes = to_categorical(py.y_test).width]
            /\ Quiet)

(* Keras layers.  A field that a layer type does not have is 0 or "". *)

Layer(type, n, size, activation, padding, max_norm, rate) ==
    [type |-> type, n |-> n, size |-> size, activation |-> activation,
     padding |-> padding, maxnorm |-> max_norm, rate |-> rate]

Conv2D(filters, size, activation, padding, max_norm) ==
    Layer("Conv2D", filters, size, activation, padding, max_norm, 0)

\* Dropout(rate), the rate in percent
Dropout(rate) == Layer("Dropout", 0, 0, "", "", 0, rate)

MaxPooling2D(pool_size) == Layer("MaxPooling2D", 0, pool_size, "", "", 0, 0)

Flatten == Layer("Flatten", 0, 0, "", "", 0, 0)

Dense(units, activation, max_norm) ==
    Layer("Dense", units, 0, activation, "", max_norm, 0)

\* input_shape=(3, 32, 32)
InputShape == <<3, 32, 32>>

\* 'th' puts the channels first, 'tf' last
Channels(shape, ordering) == IF ordering = "th" THEN shape[1] ELSE shape[3]

Rows(shape, ordering) == IF ordering = "th" THEN shape[2] ELSE shape[1]

Cols(shape, ordering) == IF ordering = "th" THEN shape[3] ELSE shape[2]

Image(c, h, w, ordering) ==
    IF ordering = "th" THEN <<c, h, w>> ELSE <<h, w, c>>

ConvSize(d, size, padding) == IF padding = "same" THEN d ELSE d - size + 1

\* the output shape of a layer applied to an input of the given shape
OutShape(l, shape, ordering) ==
    CASE l.type = "Conv2D" ->
            Image(l.n, ConvSize(Rows(shape, ordering), l.size, l.padding),
                  ConvSize(Cols(shape, ordering), l.size, l.padding), ordering)
      [] l.type = "MaxPooling2D" ->
            Image(Channels(shape, ordering), Rows(shape, ordering) \div l.size,
                  Cols(shape, ordering) \div l.size, ordering)
      [] l.type = "Flatten" -> <<shape[1] * shape[2] * shape[3]>>
      [] l.type = "Dense" -> <<l.n>>
      [] OTHER -> shape

\* the output shape of the i-th layer of a Sequential model
RECURSIVE ShapeAfter(_, _, _)
ShapeAfter(layers, i, ordering) ==
    IF i = 0 THEN InputShape
    ELSE OutShape(layers[i], ShapeAfter(layers, i - 1, ordering), ordering)

Shapes(layers, ordering) ==
    [i \in DOMAIN layers |-> ShapeAfter(layers, i, ordering)]

\* a layer with an output dimension below 1 cannot be added
BadShapes(layers, ordering) ==
    \E i \in DOMAIN layers :
        \E j \in DOMAIN ShapeAfter(layers, i, ordering) :
            ShapeAfter(layers, i, ordering)[j] < 1

BaselineLayersNoDropout(num_classes) ==
    << Conv2D(32, 3, "relu", "same", 3),
       Conv2D(32, 3, "relu", "same", 3),
       MaxPooling2D(2),
       Flatten,
       Dense(512, "relu", 3),
       Dropout(50),
       Dense(num_classes, "softmax", 0) >>

\* the baseline model: model = Sequential(); model.add(...) x 8
BaselineLayers(num_classes) ==
    << Conv2D(32, 3, "relu", "same", 3),
       Dropout(20),
       Conv2D(32, 3, "relu", "same", 3),
       MaxPooling2D(2),
       Flatten,
       Dense(512, "relu", 3),
       Dropout(50),
       Dense(num_classes, "softmax", 0) >>

LargerLayersTwoBlocks(num_classes) ==
    << Conv2D(32, 3, "relu", "same", 0),
       Dropout(20),
       Conv2D(32, 3, "relu", "same", 0),
       MaxPooling2D(2),
       Conv2D(64, 3, "relu", "same", 0),
       Dropout(20),
       Conv2D(64, 3, "relu", "same", 0),
       MaxPooling2D(2),
       Flatten,
       Dropout(20),
       Dense(1024, "relu", 3),
       Dropout(20),
       Dense(512, "relu", 3),
       Dropout(20),
       Dense(num_classes, "softmax", 0) >>

\* the larger model: model = Sequential(); model.add(...) x 19
LargerLayers(num_classes) ==
    << Conv2D(32, 3, "relu", "same", 0),
       Dropout(20),
       Conv2D(32, 3, "relu", "same", 0),
       MaxPooling2D(2),
       Conv2D(64, 3, "relu", "same", 0),
       Dropout(20),
       Conv2D(64, 3, "relu", "same", 0),
       MaxPooling2D(2),
       Conv2D(128, 3, "relu", "same", 0),
       Dropout(20),
       Conv2D(128, 3, "relu", "same", 0),
       MaxPooling2D(2),
       Flatten,
       Dropout(20),
       Dense(1024, "relu", 3),
       Dropout(20),
       Dense(512, "relu", 3),
       Dropout(20),
       Dense(num_classes, "softmax", 0) >>

\* an optimizer; lr, momentum and decay in thousandths
Optimizer(kind, lr, momentum, decay, nesterov) ==
    [kind |-> kind, lr |-> lr, momentum |-> momentum, decay |-> decay,
     nesterov |-> nesterov]

\* optimizer='adagrad': Keras builds an Adagrad optimizer with its defaults
\* (lr=0.01, no momentum, decay=0.0), whatever sgd is
compile_optimizer(sgd) == Optimizer("Adagrad", 10, 0, 0, FALSE)

\* the lines print(model.summary()) prints for a model of n layers
SummaryLines(n) == 2 * n + 8

\* model = Sequential(); model.add(...); epochs = 10; lrate = 0.01;
\* decay = lrate/epochs; sgd = SGD(...); model.compile(...);
\* print(model.summary())
CreateAndCompile(layers) ==
    LET epochs == 10
        lrate == 10     \* 0.01, in thousandths
        decay == lrate \div epochs
        sgd == Optimizer("SGD", lrate, 900, decay, FALSE)
    IN  /\ py' = [py EXCEPT
               !.model = [layers |-> layers,
                          shapes |-> Shapes(layers, py.image_dim_ordering),
                          loss |-> "categorical_crossentropy",
                          optimizer |-> compile_optimizer(sgd),
                          metrics |-> <<"categorical_accuracy">>,
                          epochs_fit |-> 0,
                          batch_size |-> 0],
               !.epochs = epochs,
               !.lrate = lrate,
               !.decay = decay,
               !.sgd = sgd]
        /\ stdout' = stdout + SummaryLines(Len(layers))
        /\ UNCHANGED <<disk, downloads>>

ModelReads ==
    {"Sequential", "Conv2D", "maxnorm", "Dropout", "MaxPooling2D", "Flatten",
     "Dense", "num_classes", "SGD"}

ModelBinds == {"model", "epochs", "lrate", "decay", "sgd"}

CIFAR_baseline_model ==
    /\ nb = CIFAR
    /\ CellExc(7, ModelReads, ModelBinds,
               IF BadShapes(BaselineLayers(py.num_classes),
                            py.image_dim_ordering)
                  THEN "ValueError" ELSE "none",
               CreateAndCompile(BaselineLayers(py.num_classes)))

\* model.fit(..., epochs=epochs, batch_size=batch_size);
\* scores = model.evaluate(X_test, y_test, verbose=0); print("Accuracy: ...")
FitAndEvaluate(batch_size, np_random) ==
    /\ py' = [py EXCEPT
                !.model.epochs_fit = @ + py.epochs,
                !.model.batch_size = batch_size,
                !.scores = <<"loss", "categorical_accuracy">>,
                !.np_random = np_random]
    /\ stdout' = stdout + 1 + 2 * py.epochs + 1
    /\ UNCHANGED <<disk, downloads>>

FitReads == {"model", "X_train", "y_train", "X_test", "y_test", "epochs"}

CIFAR_baseline_fit ==
    /\ nb = CIFAR
    /\ Cell(8, FitReads, {"scores"}, FitAndEvaluate(32, py.np_random))

CIFAR_larger_model ==
    /\ nb = CIFAR
    /\ CellExc(9, ModelReads, ModelBinds,
               IF BadShapes(LargerLayers(py.num_classes), py.image_dim_ordering)
                  THEN "ValueError" ELSE "none",
               CreateAndCompile(LargerLayers(py.num_classes)))

\* numpy.random.seed(seed), then fit and evaluate as above with batch size 64
CIFAR_larger_fit ==
    /\ nb = CIFAR
    /\ Cell(10, FitReads \cup {"numpy", "seed"}, {"scores"}, 
            FitAndEvaluate(64, [seed |-> py.seed]))

NextCifar ==
    \/ CIFAR_plot_load
    \/ CIFAR_imports
    \/ CIFAR_seed
    \/ CIFAR_load
    \/ CIFAR_normalize
    \/ CIFAR_one_hot
    \/ CIFAR_baseline_model
    \/ CIFAR_baseline_fit
    \/ CIFAR_larger_model
    \/ CIFAR_larger_fit

----------------------------------------------------------------------------
(* Both notebooks *)

Init == InitAE \/ InitCifar

Next == NextAE \/ NextCifar

Spec == Init /\ [][Next]_vars

\* the autoencoder notebook together with the harness
SpecData == (InitAE \/ InitVocab) /\ [][NextAE \/ NextVocab]_vars

----------------------------------------------------------------------------
(* What the notebooks' own text says about the networks *)

\* "Our baseline network structure can be summarized as follows: 1. ... 8."
BaselineDocumented ==
    << Conv2D(32, 3, "relu", "", 3),
       Dropout(20),
       Conv2D(32, 3, "relu", "", 3),
       MaxPooling2D(2),
       Flatten,
       Dense(512, "relu", 0),
       Dropout(50),
       Dense(10, "softmax", 0) >>

\* one round Convolutional, Dropout, Convolutional, Max Pooling
DocumentedBlock(maps) ==
    << Conv2D(maps, 3, "relu", "", 0), Dropout(20),
       Conv2D(maps, 3, "relu", "", 0), MaxPooling2D(2) >>

\* "We can summarize a new network architecture as follows: ..."
LargerDocumented ==
    DocumentedBlock(32) \o DocumentedBlock(64) \o DocumentedBlock(128)
    \o << Flatten, Dropout(20), Dense(1024, "relu", 0), Dropout(20),
          Dense(512, "relu", 0), Dropout(20), Dense(10, "softmax", 0) >>

\* a layer is the documented one: same type and the documented attributes
\* (the text leaves the padding, and sometimes the constraint, unsaid)
IsDocumentedLayer(l, d) ==
    /\ l.type = d.type
    /\ l.n = d.n
    /\ l.size = d.size
    /\ l.activation = d.activation
    /\ l.rate = d.rate
    /\ (d.maxnorm # 0 => l.maxnorm = d.maxnorm)

IsDocumentedModel(layers, documented) ==
    /\ Len(layers) = Len(documented)
    /\ \A i \in DOMAIN layers : IsDocumentedLayer(layers[i], documented[i])

\* the layers between the input X and the output layer decoder
HiddenLayers(g) == StagesFromX(g, StageNamed(g, "decoder").input)

\* the output widths of the stages, from X to decoder
StageWidths(g) == [i \in DOMAIN g |-> g[i].w[2]]

----------------------------------------------------------------------------
(* Properties *)

BaselineBuilt == nb = CIFAR /\ "model" \in ns /\ cursor \in {8, 9}

LargerBuilt == nb = CIFAR /\ "model" \in ns /\ cursor >= 10

GraphBuilt == nb = AE /\ "decoder" \in ns

\* C1: both CIFAR-10 models are compiled with the SGD optimizer constructed
\* just before model.compile (learning rate 0.01, momentum 0.9, decay
\* lrate/epochs) and the categorical cross-entropy loss.
C1_CompiledWithSGD ==
    (nb = CIFAR /\ "model" \in ns) =>
        /\ py.sgd = Optimizer("SGD", 10, 900, py.lrate \div py.epochs, FALSE)
        /\ py.model.optimizer = py.sgd
        /\ py.model.loss = "categorical_crossentropy"

\* C2: run once each in document order from a fresh kernel, no cell of the
\* autoencoder notebook reads a name that no earlier cell has bound.
C2_NoUndefinedName ==
    (nb = AE /\ mode = "RunAll") => error # "NameError"

\* C3: build_vocab returns at most vocab_size entries, 'UNK' has index 0, a
\* strictly more frequent word has the smaller index, and no word outside the
\* vocab_size - 1 most frequent ones is in the dictionary.
C3_VocabOfMostFrequent ==
    (nb = "build_vocab" /\ cursor = 2) =>
        LET d == py.dictionary
            cnt == Counter(py.words)
            others == DOMAIN d \ {"UNK"}
        IN  /\ Cardinality(DOMAIN d) <= py.vocab_size
            /\ "UNK" \in DOMAIN d /\ d["UNK"] = 0
            /\ {d[w] : w \in others} = 1..Cardinality(others)
            /\ \A v, w \in others : cnt[v] > cnt[w] => d[v] < d[w]
            /\ \A w \in others :
                  Cardinality({v \in DOMAIN cnt : cnt[v] > cnt[w]})
                      < py.vocab_size - 1

\* C5: the baseline model is exactly the documented sequence of 8 layers, in
\* the documented order.
C5_BaselineAsDocumented ==
    BaselineBuilt =>
        /\ Len(py.model.layers) = 8
        /\ IsDocumentedModel(py.model.layers, BaselineDocumented)

C5_Witness ==
    /\ BaselineBuilt
    /\ py.model.epochs_fit = 0
    /\ py.model.layers[8] = Dense(10, "softmax", 0)

\* C6: the larger model is the documented sequence: three rounds of
\* Convolutional, Dropout 20%, Convolutional, MaxPooling 2x2 with 32, 64 and
\* 128 feature maps, then Flatten, Dropout, Dense 1024, Dropout, Dense 512,
\* Dropout, Dense 10; from round to round the feature maps increase and the
\* image shrinks (16x16, 8x8, 4x4), and Flatten yields 2048 features.
C6_LargerAsDocumented ==
    LargerBuilt =>
        LET layers == py.model.layers
            shapes == py.model.shapes
            pools == {i \in DOMAIN layers : layers[i].type = "MaxPooling2D"}
            flat == {i \in DOMAIN layers : layers[i].type = "Flatten"}
        IN  /\ IsDocumentedModel(layers, LargerDocumented)
            /\ Cardinality(pools) = 3
            /\ \A i \in pools : shapes[i][1] = layers[i - 1].n
            /\ \A i \in pools : shapes[i][2] < InputShape[2]
            /\ \A i, j \in pools : i < j =>
                  /\ shapes[i][1] < shapes[j][1]
                  /\ shapes[i][2] > shapes[j][2]
                  /\ shapes[i][3] > shapes[j][3]
            /\ {shapes[i] : i \in pools} =
                  {<<32, 16, 16>>, <<64, 8, 8>>, <<128, 4, 4>>}
            /\ \A i \in flat : shapes[i] = <<128 * 4 * 4>>
            /\ \A i \in flat : shapes[i] = <<2048>>

C6_Witness ==
    /\ LargerBuilt
    /\ Len(py.model.layers) = 19
    /\ py.model.shapes[13] = <<2048>>

\* C7 (as stated): the autoencoder's graph has five matrix-multiply-plus-bias
\* stages from the input X to the decoder output.
C7_FiveStages ==
    GraphBuilt => StagesFromX(py.graph, "decoder") = 5

\* C7 (amended): the autoencoder's graph has six matrix-multiply-plus-bias
\* stages from the input X to the decoder output, of fixed widths 1000, 250,
\* 50, 250 and 1000 before the output of width vocabulary_size.
C7_SixStages ==
    GraphBuilt =>
        /\ StagesFromX(py.graph, "decoder") = 6
        /\ Len(py.graph) = 6
        /\ StageWidths(py.graph) =
              <<1000, 250, 50, 250, 1000, py.vocabulary_size>>

C7_Witness ==
    /\ GraphBuilt
    /\ "test_data_compressed" \in ns
    /\ py.test_data_compressed.shape[2] = py.vocabulary_size

\* C8: the autoencoder has one hidden layer: exactly one layer lies between
\* the input X and the output layer decoder.
C8_OneHiddenLayer ==
    GraphBuilt => HiddenLayers(py.graph) = 1

\* C9: the code layer is strictly narrower than the input.
C9_CodeNarrowerThanInput ==
    GraphBuilt => Width(py.graph, py.X, "code") < Width(py.graph, py.X, "X")

\* the rows are the one-hot vectors of the indices, one row per index and in
\* the same order: row r has the given length, entry indices[r] is 1 and
\* every other entry is 0
OneHotRows(rows, indices, size) ==
    /\ Len(rows) = Len(indices)
    /\ \A r \in DOMAIN rows :
          /\ Len(rows[r]) = size
          /\ indices[r] \in 0..(size - 1)
          /\ rows[r][indices[r] + 1] = 1
          /\ \A j \in DOMAIN rows[r] : j # indices[r] + 1 => rows[r][j] = 0
          /\ Cardinality({j \in DOMAIN rows[r] : rows[r][j] = 1}) = 1

\* C11: data has one row per corpus token, in corpus order; each row has
\* length vocabulary_size and is the one-hot vector of the token's index;
\* likewise for test_data.
C11_DataIsOneHot ==
    /\ "data" \in ns =>
          OneHotRows(py.data, py.corpus, py.vocabulary_size)
    /\ "test_data" \in ns =>
          OneHotRows(py.test_data, py.test_corpus, py.vocabulary_size)

\* the notebook's matrices, of the recorded shape (14, 11)
C11_Witness ==
    /\ nb = AE
    /\ "data" \in ns /\ "test_data" \in ns
    /\ Len(py.data) = 14 /\ Len(py.data[1]) = 11
    /\ Len(py.test_data) = 14 /\ Len(py.test_data[14]) = 11
    /\ py.data[1][py.vocabulary["the"] + 1] = 1

\* C10 (as stated): no step of either notebook's run writes to persistent
\* storage.
C10_NoPersistence == [][disk' = disk]_vars

\* C10 (amended): the only step that writes to persistent storage is
\* cifar10.load_data(), which leaves the downloaded dataset in the Keras
\* dataset directory when it is not there yet; no step of the autoencoder
\* notebook writes anything and nothing is ever removed.
C10_OnlyLoadDataPersists ==
    [][disk' # disk =>
          /\ CIFAR_plot_load \/ CIFAR_load
          /\ CifarCache \notin disk
          /\ disk' = disk \cup {CifarCache}]_vars

C10_Witness ==
    /\ nb = CIFAR
    /\ downloads = 1
    /\ disk = {CifarCache}
    /\ "scores" \in ns

====
